---- MODULE Spec2Model ----
(***************************************************************************)
(* Model of the hall-ticket result scraper: src/app.py (fetch workers,     *)
(* the NDJSON append log, the auto-excel refresher, the final conversion   *)
(* in main) and src/json_to_excel.py (load_items, items_to_excel).         *)
(*                                                                         *)
(* Texts are sequences of characters; a character is a one-token string.   *)
(* "LS" stands for a character such as U+2028 or U+0085: json.dumps with   *)
(* ensure_ascii=False writes it raw, str.splitlines() breaks a line at it, *)
(* iterating a text file does not.                                         *)
(***************************************************************************)
EXTENDS Integers, Sequences, FiniteSets, TLC

\* ------------------------------------------------------------------ bounds
NumTickets == 2
MaxRows == 4
MaxCells == 4
MaxItems == 2

\* --------------------------------------------------- run configuration
\* START_HT, MAX_WORKERS: module defaults of app.py, overridden by --start
\* and --max-workers; the model runs with --start 9 --max-workers 2.
START_HT == 9
MAX_WORKERS == 2
END_HT == START_HT + NumTickets - 1

\* ------------------------------------------------------------- texts
Digits == <<"0", "1", "2", "3", "4", "5", "6", "7", "8", "9">>

IsDigit(c) == \E i \in 1..Len(Digits) : Digits[i] = c

DigitVal(c) == (CHOOSE i \in 1..Len(Digits) : Digits[i] = c) - 1

\* str(ht) of app.py:314
RECURSIVE str(_)
str(n) == IF n < Len(Digits) THEN <<Digits[n + 1]>>
          ELSE Append(str(n \div Len(Digits)), Digits[(n % Len(Digits)) + 1])

\* int(x) as used by Series.astype(int): defined on non-empty digit texts
IsInt(s) == Len(s) > 0 /\ \A i \in 1..Len(s) : IsDigit(s[i])

RECURSIVE ToInt(_)
ToInt(s) == IF Len(s) = 0 THEN 0
            ELSE ToInt(SubSeq(s, 1, Len(s) - 1)) * Len(Digits) + DigitVal(s[Len(s)])

\* code-point order of the characters of the model
CodePoints == <<"\n", "0", "1", "2", "3", "4", "5", "6", "7", "8", "9", "A", "B", "L", "M", "P", "LS">>

Ord(c) == CHOOSE i \in 1..Len(CodePoints) : CodePoints[i] = c

\* Python's str < str
RECURSIVE StrLess(_, _)
StrLess(a, b) ==
    IF Len(b) = 0 THEN FALSE
    ELSE IF Len(a) = 0 THEN TRUE
    ELSE IF Head(a) = Head(b) THEN StrLess(Tail(a), Tail(b))
    ELSE Ord(Head(a)) < Ord(Head(b))

\* ------------------------------------------------------------- records
\* an optional text: <<>> is None, <<t>> is the text t
None == <<>>
Some(t) == <<t>>
Absent == [absent |-> TRUE]
Raised == [raised |-> TRUE]

StudentKeys == <<"hallticket", "gender", "name", "father", "course">>

\* the placeholder of worker(), app.py:218-223
Placeholder(htno) ==
    [student |-> [hallticket |-> htno], marks |-> <<>>, result |-> None,
     status |-> "NO_RESULT"]

\* --------------------------------------------------- HTML result parser
\* A page: marker (the text contains "Personal Details"), and the tables
\* AutoNumber3/4/5, each <<>> when the id is not in the page, else <<rows>>,
\* rows a sequence of rows, a row the sequence of its td texts (stripped).
In(seq, i) == i + 1 <= Len(seq)
At(seq, i) == seq[i + 1]

\* rows[r].find_all("td")[c] inside the try block: IndexError when missing
HasCell(rows, r, c) == In(rows, r) /\ In(At(rows, r), c)

RECURSIVE ParseMarks(_)
ParseMarks(rows) ==
    IF Len(rows) = 0 THEN <<>>
    ELSE LET cols == Head(rows)
         IN (IF Len(cols) >= 4
             THEN <<[code |-> At(cols, 0), subject |-> At(cols, 1),
                     credits |-> At(cols, 2), grade |-> At(cols, 3)]>>
             ELSE <<>>) \o ParseMarks(Tail(rows))

DropRows(rows, n) == IF Len(rows) <= n THEN <<>> ELSE SubSeq(rows, n + 1, Len(rows))

ParseFinal(t5) ==
    IF Len(t5) = 0 THEN None
    ELSE LET rows5 == t5[1]
         IN IF Len(rows5) > 2 /\ Len(At(rows5, 2)) > 2
            THEN Some(At(At(rows5, 2), 2)) ELSE None

\* a parser that keeps the cells it finds instead of failing closed
fetch_result_partial(page) ==
    IF ~page.marker THEN Absent
    ELSE IF Len(page.t3) = 0 THEN Absent
    ELSE LET rows == page.t3[1]
             want == [hallticket |-> <<1, 1>>, gender |-> <<1, 3>>, name |-> <<2, 1>>,
                      father |-> <<2, 3>>, course |-> <<3, 1>>]
             have == {k \in DOMAIN want : HasCell(rows, want[k][1], want[k][2])}
         IN IF "hallticket" \notin have THEN Absent
            ELSE [student |-> [k \in have |-> At(At(rows, want[k][1]), want[k][2])],
                  marks |-> IF Len(page.t4) = 0 THEN <<>>
                            ELSE ParseMarks(DropRows(page.t4[1], 2)),
                  result |-> ParseFinal(page.t5)]

\* the try block of app.py:171-180: the student, or Raised (IndexError) when a
\* row or a cell it indexes is missing
StudentOf(rows) ==
    IF /\ HasCell(rows, 1, 1) /\ HasCell(rows, 1, 3)
       /\ HasCell(rows, 2, 1) /\ HasCell(rows, 2, 3)
       /\ HasCell(rows, 3, 1)
    THEN [hallticket |-> At(At(rows, 1), 1),
          gender |-> At(At(rows, 1), 3),
          name |-> At(At(rows, 2), 1),
          father |-> At(At(rows, 2), 3),
          course |-> At(At(rows, 3), 1)]
    ELSE Raised

\* fetch_result after the POST, app.py:161-204
fetch_result(page) ==
    IF ~page.marker THEN Absent
    ELSE IF Len(page.t3) = 0 THEN Absent
    ELSE IF StudentOf(page.t3[1]) = Raised THEN Absent
    ELSE [student |-> StudentOf(page.t3[1]),
          marks |-> IF Len(page.t4) = 0 THEN <<>>
                    ELSE ParseMarks(DropRows(page.t4[1], 2)),
          result |-> ParseFinal(page.t5)]

\* ------------------------------------------------- JSON lines (NDJSON)
\* json.dumps(text, ensure_ascii=False): control characters are escaped
\* ("\n" becomes the two characters \ n, one token here), everything else,
\* LS included, is written as it is.
Escape(text) == [i \in 1..Len(text) |-> IF text[i] = "\n" THEN "\\n" ELSE text[i]]

Quote(text) == <<"\"">> \o Escape(text) \o <<"\"">>

RECURSIVE DumpStudent(_, _)
DumpStudent(st, keys) ==
    IF Len(keys) = 0 THEN <<>>
    ELSE (IF Head(keys) \in DOMAIN st THEN Quote(st[Head(keys)]) ELSE <<>>)
         \o DumpStudent(st, Tail(keys))

RECURSIVE DumpMarks(_)
DumpMarks(marks) ==
    IF Len(marks) = 0 THEN <<>>
    ELSE <<"{">> \o Quote(Head(marks).code) \o Quote(Head(marks).subject)
         \o Quote(Head(marks).credits) \o Quote(Head(marks).grade) \o <<"}">>
         \o DumpMarks(Tail(marks))

\* json.dumps(data, ensure_ascii=False), app.py:68; keys are left out of the
\* token text, the values are written in the order of the dict
dumps(r) ==
    <<"{", "{">> \o DumpStudent(r.student, StudentKeys) \o <<"}", "[">>
    \o DumpMarks(r.marks) \o <<"]">>
    \o (IF r.result = None THEN <<"null">> ELSE Quote(r.result[1]))
    \o (IF "status" \in DOMAIN r THEN <<r.status>> ELSE <<>>)
    \o <<"}">>

\* the line append_result writes, app.py:68
Line(r) == Append(dumps(r), "\n")

\* the position of the first character of seps at or after i, 0 when none
NextBreak(text, seps, i) ==
    IF \E j \in i..Len(text) : text[j] \in seps
    THEN CHOOSE j \in i..Len(text) :
            text[j] \in seps /\ \A k \in i..(j - 1) : text[k] \notin seps
    ELSE 0

\* the lines of a text from position i on, broken at the characters of seps
\* (the line breaks are dropped, strip() removes them anyway)
RECURSIVE SplitAt(_, _, _)
SplitAt(text, seps, i) ==
    IF i > Len(text) THEN <<>>
    ELSE IF NextBreak(text, seps, i) = 0 THEN <<SubSeq(text, i, Len(text))>>
    ELSE <<SubSeq(text, i, NextBreak(text, seps, i) - 1)>>
         \o SplitAt(text, seps, NextBreak(text, seps, i) + 1)

\* line boundaries of iterating a text file (universal newlines; "\r" never
\* occurs raw in dumps output) and of str.splitlines()
FileLineBreaks == {"\n"}
splitlines_breaks == {"\n", "LS"}

\* whitespace of str.strip()
Whitespace == {"\n", "LS"}

RECURSIVE LStrip(_)
LStrip(text) ==
    IF Len(text) > 0 /\ Head(text) \in Whitespace THEN LStrip(Tail(text)) ELSE text

RECURSIVE RStrip(_)
RStrip(text) ==
    IF Len(text) > 0 /\ text[Len(text)] \in Whitespace
    THEN RStrip(SubSeq(text, 1, Len(text) - 1)) ELSE text

strip(text) == RStrip(LStrip(text))

\* ---------------------------------------------------- pages of the model
\* the page of a result: the cells fetch_result reads carry ht, name, the
\* marks and the final result; the other cells carry fixed texts
ResultPage(ht, name, codes, res) ==
    [marker |-> TRUE,
     t3 |-> << << <<>>,
                  << <<"A">>, ht, <<"A">>, <<"M">> >>,
                  << <<"A">>, name, <<"A">>, <<"B">> >>,
                  << <<"A">>, <<"B">> >> >> >>,
     t4 |-> << << <<>>, <<>> >>
               \o [i \in 1..Len(codes) |-> <<codes[i], <<"M">>, <<"4">>, <<"A">>>>] >>,
     t5 |-> << << <<>>, <<>>, << <<"A">>, <<"A">>, res >> >> >> ]

NoMarkerPage == [marker |-> FALSE, t3 |-> <<>>, t4 |-> <<>>, t5 |-> <<>>]

Tickets == START_HT..END_HT

HtTexts == {str(START_HT), str(START_HT + 1), <<"A">>}

NameTexts == {<<"A">>, <<"A", "\n", "B">>, <<"A", "LS", "B">>}

CodeM == <<"M">>
CodeP == <<"P">>
CodeLab == <<"L", "A", "B">>

MarkLists == {<<>>, <<CodeP>>, <<CodeP, CodeM>>, <<CodeM>>, <<CodeLab, CodeM>>}

ServerPages ==
    {NoMarkerPage}
    \cup {ResultPage(h, n, c, <<"P">>) : h \in HtTexts, n \in NameTexts, c \in MarkLists}

\* every record a worker can append: a parsed page or a placeholder
Records ==
    ({fetch_result(p) : p \in ServerPages} \ {Absent})
    \cup {Placeholder(str(START_HT)), Placeholder(str(START_HT + 1))}

\* ---- json.loads(line), for the texts dumps writes; a text that is not one
\* JSON document (a part of a record's text, parts of several) raises ValueError
Tok(text, i) == IF i >= 1 /\ i <= Len(text) THEN text[i] ELSE "EOF"

Unescape(text) == [i \in 1..Len(text) |-> IF text[i] = "\\n" THEN "\n" ELSE text[i]]

\* the position of the first quote at or after i, 0 when there is none
FindQuote(text, i) == NextBreak(text, {"\""}, i)

Bad == [ok |-> FALSE]

\* one string at position i
LoadStr(text, i) ==
    IF Tok(text, i) # "\"" \/ FindQuote(text, i + 1) = 0 THEN Bad
    ELSE [ok |-> TRUE, val |-> Unescape(SubSeq(text, i + 1, FindQuote(text, i + 1) - 1)),
          next |-> FindQuote(text, i + 1) + 1]

\* the strings that follow each other from position i on
RECURSIVE LoadStrs(_, _)
LoadStrs(text, i) ==
    IF Tok(text, i) # "\"" THEN [ok |-> TRUE, val |-> <<>>, next |-> i]
    ELSE LET s1 == LoadStr(text, i)
         IN IF ~s1.ok THEN Bad
            ELSE LET more == LoadStrs(text, s1.next)
                 IN IF ~more.ok THEN Bad
                    ELSE [ok |-> TRUE, val |-> <<s1.val>> \o more.val, next |-> more.next]

\* the objects of the marks list from position i on
RECURSIVE LoadMarks(_, _)
LoadMarks(text, i) ==
    IF Tok(text, i) # "{" THEN [ok |-> TRUE, val |-> <<>>, next |-> i]
    ELSE LET f == LoadStrs(text, i + 1)
         IN IF ~f.ok THEN Bad
            ELSE IF Len(f.val) # 4 \/ Tok(text, f.next) # "}" THEN Bad
            ELSE LET more == LoadMarks(text, f.next + 1)
                 IN IF ~more.ok THEN Bad
                    ELSE [ok |-> TRUE,
                          val |-> <<[code |-> f.val[1], subject |-> f.val[2],
                                     credits |-> f.val[3], grade |-> f.val[4]]>>
                                  \o more.val,
                          next |-> more.next]

\* the result value at position i: null or a string
LoadResult(text, i) ==
    IF Tok(text, i) = "null" THEN [ok |-> TRUE, val |-> None, next |-> i + 1]
    ELSE LET r == LoadStr(text, i)
         IN IF ~r.ok THEN Bad ELSE [ok |-> TRUE, val |-> Some(r.val), next |-> r.next]

Decode(text) ==
    IF Tok(text, 1) # "{" \/ Tok(text, 2) # "{" THEN Bad
    ELSE LET st == LoadStrs(text, 3)
         IN IF ~st.ok THEN Bad
            ELSE IF Len(st.val) \notin {1, Len(StudentKeys)} \/ Tok(text, st.next) # "}"
                    \/ Tok(text, st.next + 1) # "["
            THEN Bad
            ELSE LET mk == LoadMarks(text, st.next + 2)
                 IN IF ~mk.ok THEN Bad
                    ELSE IF Tok(text, mk.next) # "]" THEN Bad
                    ELSE LET rs == LoadResult(text, mk.next + 1)
                         IN IF ~rs.ok THEN Bad
                            ELSE LET student == [k \in {StudentKeys[j] : j \in 1..Len(st.val)}
                                                   |-> st.val[CHOOSE j \in 1..Len(st.val) :
                                                                 StudentKeys[j] = k]]
                                 IN IF Tok(text, rs.next) = "NO_RESULT"
                                       /\ Tok(text, rs.next + 1) = "}"
                                       /\ Len(text) = rs.next + 1
                                    THEN [ok |-> TRUE,
                                          val |-> [student |-> student, marks |-> mk.val,
                                                   result |-> rs.val,
                                                   status |-> "NO_RESULT"]]
                                    ELSE IF Tok(text, rs.next) = "}" /\ Len(text) = rs.next
                                    THEN [ok |-> TRUE,
                                          val |-> [student |-> student, marks |-> mk.val,
                                                   result |-> rs.val]]
                                    ELSE Bad

IsJson(text) == Decode(text).ok
loads(text) == Decode(text).val

\* a reader that does not skip a line json.loads rejects, and keeps it as a
\* record of its own
RECURSIVE LoadLinesKept(_)
LoadLinesKept(lines) ==
    IF Len(lines) = 0 THEN <<>>
    ELSE LET line == strip(Head(lines))
         IN (IF Len(line) = 0 THEN <<>>
             ELSE IF IsJson(line) THEN <<loads(line)>> ELSE <<Placeholder(line)>>)
            \o LoadLinesKept(Tail(lines))

\* the loop over the lines: blank lines and lines json.loads rejects are
\* skipped (app.py:328-335, json_to_excel.py:28-36)
RECURSIVE LoadLines(_)
LoadLines(lines) ==
    IF Len(lines) = 0 THEN <<>>
    ELSE LET line == strip(Head(lines))
         IN (IF Len(line) > 0 /\ IsJson(line) THEN <<loads(line)>> ELSE <<>>)
            \o LoadLines(Tail(lines))

\* the final read of main, app.py:326-335 (for line in f)
ReadFinal(text) == LoadLines(SplitAt(text, FileLineBreaks, 1))

\* load_items of json_to_excel.py:21-37 (txt.splitlines()); a log written by
\* append_result never starts with "[", the JSON-array branch is not modelled
load_items(text) ==
    LET txt == strip(text)
    IN IF Len(txt) = 0 THEN <<>>
       ELSE LoadLines(SplitAt(txt, splitlines_breaks, 1))

\* ------------------------------------------------------ report building
\* A column name is [p, n]: the prefix an f-string puts before a subject code
\* ("grade_", "credits_", "subject_", or "" for none) and the name after it,
\* a text (a code) or the one-token text of a fixed name.
Col(p, n) == [p |-> p, n |-> n]
Plain(name) == Col("", <<name>>)

Range(s) == {s[i] : i \in 1..Len(s)}

RECURSIVE Filter(_, _)
Filter(s, keep) ==
    IF Len(s) = 0 THEN <<>>
    ELSE (IF Head(s) \in keep THEN <<Head(s)>> ELSE <<>>) \o Filter(Tail(s), keep)

\* the distinct elements of s in the order of their first appearance
RECURSIVE Unique(_)
Unique(s) ==
    IF Len(s) = 0 THEN <<>>
    ELSE LET init == Unique(SubSeq(s, 1, Len(s) - 1))
         IN IF s[Len(s)] \in Range(init) THEN init ELSE Append(init, s[Len(s)])

RECURSIVE Concat(_)
Concat(ss) == IF Len(ss) = 0 THEN <<>> ELSE Head(ss) \o Concat(Tail(ss))

\* a stable sort of s by the integer key f[x], ascending
RECURSIVE InsertBy(_, _, _)
InsertBy(x, s, f) ==
    IF Len(s) = 0 THEN <<x>>
    ELSE IF f[x] < f[Head(s)] THEN <<x>> \o s
    ELSE <<Head(s)>> \o InsertBy(x, Tail(s), f)

RECURSIVE SortBy(_, _)
SortBy(s, f) ==
    IF Len(s) = 0 THEN <<>>
    ELSE InsertBy(s[Len(s)], SortBy(SubSeq(s, 1, Len(s) - 1), f), f)

\* the rank of a text among the texts of a set, in str order
LexRank(S) == [x \in S |-> Cardinality({y \in S : StrLess(y, x)})]

\* (item.get("student") or {}).get("hallticket")
Hallticket(item) == item.student.hallticket

\* flatten_top plus flat["hallticket"]: the keys of one results row, in the
\* order they are inserted (app.py:338-355, json_to_excel.py:46-65)
FlatKeys(item) ==
    [i \in 1..Len(Filter(StudentKeys, DOMAIN item.student)) |->
        Col("student.", <<Filter(StudentKeys, DOMAIN item.student)[i]>>)]
    \o <<Plain("result")>>
    \o (IF "status" \in DOMAIN item THEN <<Plain("status")>> ELSE <<>>)
    \o <<Plain("hallticket")>>

\* pd.DataFrame(rows).columns: the keys in order of first appearance
FrameColumns(items) == Unique(Concat([i \in 1..Len(items) |-> FlatKeys(items[i])]))

\* the code column of the long-form marks table, one entry per mark row
MarkCodes(items) ==
    Concat([i \in 1..Len(items) |->
              [j \in 1..Len(items[i].marks) |-> items[i].marks[j].code]])

\* the columns of pivot_table(columns="code"): the codes, sorted
PivotCodes(items) ==
    LET codes == Unique(MarkCodes(items))
    IN SortBy(codes, LexRank(Range(codes)))

Count(s, x) == Cardinality({i \in 1..Len(s) : s[i] = x})

\* list(df_marks['code'].value_counts().index): by descending count, codes of
\* equal count in the order of their first appearance
codes_sorted(items) ==
    LET all == MarkCodes(items)
    IN SortBy(Unique(all), [c \in Range(all) |-> 0 - Count(all, c)])

Prefixed(p, codes) == [i \in 1..Len(codes) |-> Col(p, codes[i])]

\* sort_values on hallticket: astype(int) when every value is an int text,
\* else (ValueError) the values as strings; rows is the hallticket column
SortRows(rows) ==
    IF \A i \in 1..Len(rows) : IsInt(rows[i])
    THEN SortBy(rows, [h \in Range(rows) |-> ToInt(h)])
    ELSE SortBy(rows, LexRank(Range(rows)))

HallticketColumn(items) == [i \in 1..Len(items) |-> Hallticket(items[i])]

\* ---- the final conversion of main, app.py:350-427
core_pref_main ==
    <<Plain("hallticket"), Col("student.", <<"name">>), Col("student.", <<"father">>),
      Col("student.", <<"gender">>), Col("student.", <<"course">>),
      Plain("result"), Plain("status")>>

IsSubjectCol(c) == c.p \in {"grade_", "credits_", "subject_"}

\* df_results.columns after the three merges (app.py:388-390)
MergedMain(items) ==
    FrameColumns(items)
    \o Prefixed("grade_", PivotCodes(items))
    \o Prefixed("credits_", PivotCodes(items))
    \o Prefixed("subject_", PivotCodes(items))

\* subject_cols, app.py:398-404
subject_cols(items) ==
    LET cols == Range(MergedMain(items))
        byCode == Concat([i \in 1..Len(codes_sorted(items)) |->
                     Filter(<<Col("grade_", codes_sorted(items)[i]),
                              Col("credits_", codes_sorted(items)[i]),
                              Col("subject_", codes_sorted(items)[i])>>, cols)])
        remaining == {c \in cols : IsSubjectCol(c) /\ c \notin Range(byCode)}
    IN byCode \o Filter(MergedMain(items), remaining)

\* the columns of the results sheet main writes
MainColumns(items) ==
    IF Len(MarkCodes(items)) = 0 THEN FrameColumns(items)
    ELSE LET merged == MergedMain(items)
             core_cols == Filter(core_pref_main, Range(merged))
             subj == subject_cols(items)
             other_cols == Filter(merged, Range(merged) \ (Range(core_cols) \cup Range(subj)))
         IN core_cols \o subj \o other_cols

\* the hallticket column of the results sheet main writes, top to bottom: the
\* sort of app.py:410-415 is inside "if not df_marks.empty"
MainRows(items) ==
    IF Len(MarkCodes(items)) = 0 THEN HallticketColumn(items)
    ELSE SortRows(HallticketColumn(items))

\* the columns of the grades sheet main writes, app.py:383, 421-425
MainGrades(items) == <<Plain("hallticket")>> \o Prefixed("grade_", PivotCodes(items))

MainReport(items) ==
    [by |-> "main", cols |-> MainColumns(items), rows |-> MainRows(items),
     grades |-> MainGrades(items)]

\* ---- items_to_excel, json_to_excel.py:59-155
core_pref_helper ==
    <<Plain("hallticket"), Col("student.", <<"name">>), Col("student.", <<"father">>)>>

\* 'LAB' in c
RECURSIVE HasLab(_)
HasLab(c) ==
    IF Len(c) < 3 THEN FALSE
    ELSE SubSeq(c, 1, 3) = <<"L", "A", "B">> \/ HasLab(Tail(c))

Upper == {"A", "B", "L", "M", "P"}
Lower == {"hallticket", "result", "status", "name", "father", "gender", "course"}

\* c.isupper(): some cased character and no lower-case one (the fixed names of
\* the model are lower-case texts)
IsUpper(c) ==
    /\ c.p = ""
    /\ \E i \in 1..Len(c.n) : c.n[i] \in Upper
    /\ \A i \in 1..Len(c.n) : c.n[i] \notin Lower

\* df_rows.columns after the three merges (json_to_excel.py:94-96)
MergedHelper(items) ==
    IF Len(MarkCodes(items)) = 0 THEN FrameColumns(items)
    ELSE FrameColumns(items)
         \o Prefixed("", PivotCodes(items))
         \o Prefixed("credits_", PivotCodes(items))
         \o Prefixed("subject_", PivotCodes(items))

\* subject_codes_ordered: common, labs, uncommon (json_to_excel.py:102-116)
subject_codes_ordered(items) ==
    LET sorted == codes_sorted(items)
        labs == Filter(sorted, {c \in Range(sorted) : HasLab(c)})
        non_labs == Filter(sorted, Range(sorted) \ Range(labs))
        half == Len(non_labs) \div 2
        common == SubSeq(non_labs, 1, half)
        uncommon == SubSeq(non_labs, half + 1, Len(non_labs))
    IN Filter(Prefixed("", common \o labs \o uncommon), Range(MergedHelper(items)))

\* the columns of the results sheet items_to_excel writes
HelperColumns(items) ==
    LET merged == MergedHelper(items)
        first == Filter(core_pref_helper, Range(merged))
                 \o subject_codes_ordered(items)
                 \o Filter(<<Plain("result")>>, Range(merged))
        rest == {c \in Range(merged) \ Range(first) : IsUpper(c)}
        remaining_code_cols ==
            SortBy(Filter(merged, rest),
                   [c \in rest |-> LexRank({d.n : d \in rest})[c.n]])
    IN first \o remaining_code_cols

\* the hallticket column of the results sheet items_to_excel writes
HelperRows(items) == SortRows(HallticketColumn(items))

\* the columns of the grades sheet items_to_excel writes
HelperGrades(items) == <<Plain("hallticket")>> \o Prefixed("", PivotCodes(items))

items_to_excel(items) ==
    [by |-> "helper", cols |-> HelperColumns(items), rows |-> HelperRows(items),
     grades |-> HelperGrades(items)]

\* ============================================================ the run
VARIABLES
    nsub,      \* main: tasks submitted so far
    mpc,       \* main: position
    wpc,       \* per ticket: position of its worker task
    outcome,   \* per ticket: how its fetch ended
    data,      \* per ticket: the record the worker appends
    buf,       \* per ticket: characters written but not yet passed to the file
    results,   \* the in-memory list
    lock,      \* holder of the lock, 0 when free
    log,       \* content of NDJSON_FILE
    event,     \* auto_excel_event
    stop,      \* auto_excel_stop
    rpc,       \* refresher: position
    snap,      \* refresher: the items generate_excel loaded
    final,     \* main: the list read from the log
    outFile,   \* content of OUTPUT_FILE
    late,      \* refresher: regenerations started since the stop signal
    seen,      \* refresher: per ticket, how much of its line was in the file
               \* at the last read
    page,      \* parser run: the response body
    parsed,    \* parser run: what fetch_result returned
    items,     \* conversion run: the records given
    cpc,       \* conversion run: position
    staged,    \* conversion run: content of the staging file
    loaded,    \* conversion run: what load_items returned
    viaMain,   \* conversion run: the workbook of main's conversion
    viaHelper  \* conversion run: the workbook of items_to_excel

runVars == <<nsub, mpc, wpc, outcome, data, buf, results, lock, log, event, stop,
             rpc, snap, final, outFile, late, seen>>
parserVars == <<page, parsed>>
convVars == <<items, cpc, staged, loaded, viaMain, viaHelper>>
vars == <<runVars, parserVars, convVars>>

NoFile == [by |-> "none", cols |-> <<>>, rows |-> <<>>, grades |-> <<>>]
NoRecord == [none |-> TRUE]
Pending == [pending |-> TRUE]
Free == 0

\* the state after clear_old_results() and start_auto_excel(), app.py:309-312;
\* the parser run and the conversion run are not in use
Init ==
    /\ nsub = 0
    /\ mpc = "submit"
    /\ wpc = [t \in Tickets |-> "new"]
    /\ outcome = [t \in Tickets |-> "none"]
    /\ data = [t \in Tickets |-> NoRecord]
    /\ buf = [t \in Tickets |-> <<>>]
    /\ results = <<>>
    /\ lock = Free
    /\ log = <<>>
    /\ event = FALSE
    /\ stop = FALSE
    /\ rpc = "loop"
    /\ snap = <<>>
    /\ final = <<>>
    /\ outFile = NoFile
    /\ late = "none"
    /\ seen = [t \in Tickets |-> "none"]
    /\ page = NoMarkerPage
    /\ parsed = Pending
    /\ items = <<>>
    /\ cpc = "idle"
    /\ staged = <<>>
    /\ loaded = <<>>
    /\ viaMain = NoFile
    /\ viaHelper = NoFile

\* ---- main, app.py:314-335 and 418-427
\* executor.submit(worker, htno), in the order of ht_numbers
Submit ==
    /\ mpc = "submit" /\ nsub < NumTickets
    /\ wpc' = [wpc EXCEPT ![START_HT + nsub] = "queued"]
    /\ nsub' = nsub + 1
    /\ UNCHANGED <<mpc, outcome, data, buf, results, lock, log, event, stop, rpc, snap,
                   final, outFile,
                   late, seen, parserVars, convVars>>

\* a pool that is left as soon as every task is submitted, shutdown(wait=False)
PoolDrainedEarly ==
    /\ mpc = "submit" /\ nsub = NumTickets
    /\ mpc' = "stop"
    /\ UNCHANGED <<nsub, wpc, outcome, data, buf, results, lock, log, event, stop, rpc,
                   snap, final, outFile,
                   late, seen, parserVars, convVars>>

\* as_completed(futures) and the exit of the executor's with block
PoolDrained ==
    /\ mpc = "submit" /\ nsub = NumTickets
    /\ \A t \in Tickets : wpc[t] = "done"
    /\ mpc' = "stop"
    /\ UNCHANGED <<nsub, wpc, outcome, data, buf, results, lock, log, event, stop, rpc,
                   snap, final, outFile,
                   late, seen, parserVars, convVars>>

\* stop_auto_excel, app.py:143
StopSet ==
    /\ mpc = "stop"
    /\ stop' = TRUE
    /\ mpc' = "wake"
    /\ UNCHANGED <<nsub, wpc, outcome, data, buf, results, lock, log, event, rpc, snap,
                   final, outFile,
                   late, seen, parserVars, convVars>>

\* a stop that does not wake the refresher
StopWakeSkipped ==
    /\ mpc = "wake"
    /\ mpc' = "join"
    /\ UNCHANGED <<nsub, wpc, outcome, data, buf, results, lock, log, event, stop, rpc,
                   snap, final, outFile,
                   late, seen, parserVars, convVars>>

\* stop_auto_excel, app.py:144
StopWake ==
    /\ mpc = "wake"
    /\ event' = TRUE
    /\ mpc' = "join"
    /\ UNCHANGED <<nsub, wpc, outcome, data, buf, results, lock, log, stop, rpc, snap,
                   final, outFile,
                   late, seen, parserVars, convVars>>

Regenerating == rpc \in {"read", "excel"}

\* auto_excel_thread.join(timeout=5), app.py:146: returns when the thread has
\* ended
JoinEnded ==
    /\ mpc = "join" /\ rpc = "exit"
    /\ mpc' = "read"
    /\ UNCHANGED <<nsub, wpc, outcome, data, buf, results, lock, log, event, stop, rpc,
                   snap, final, outFile,
                   late, seen, parserVars, convVars>>

\* ... or when 5 seconds have passed: the thread is still inside
\* generate_excel, the one step of its loop that takes unbounded time
JoinTimeout ==
    /\ mpc = "join" /\ Regenerating
    /\ mpc' = "read"
    /\ UNCHANGED <<nsub, wpc, outcome, data, buf, results, lock, log, event, stop, rpc,
                   snap, final, outFile,
                   late, seen, parserVars, convVars>>

\* app.py:326-335
FinalRead ==
    /\ mpc = "read"
    /\ final' = ReadFinal(log)
    /\ mpc' = "write"
    /\ UNCHANGED <<nsub, wpc, outcome, data, buf, results, lock, log, event, stop, rpc,
                   snap, outFile,
                   late, seen, parserVars, convVars>>

\* app.py:350-427
FinalWrite ==
    /\ mpc = "write"
    /\ outFile' = MainReport(final)
    /\ mpc' = "written"
    /\ UNCHANGED <<nsub, wpc, outcome, data, buf, results, lock, log, event, stop, rpc,
                   snap, final,
                   late, seen, parserVars, convVars>>

\* main returns (app.py:456): the process ends, and the daemon thread with it
Exit ==
    /\ mpc = "written"
    /\ mpc' = "done"
    /\ UNCHANGED <<nsub, wpc, outcome, data, buf, results, lock, log, event, stop, rpc,
                   snap, final, outFile,
                   late, seen, parserVars, convVars>>

\* ---- worker(htno), app.py:207-228, and append_result, app.py:64-76
\* the pages the server of the model answers a ticket with: no result, the
\* ticket's own result, or a result page that shows the first ticket's number
SpecPages(t) ==
    {NoMarkerPage,
     ResultPage(str(t), <<"A">>, <<CodeM>>, <<"P">>),
     ResultPage(str(START_HT), <<"A", "LS", "B">>, <<>>, <<"P">>)}

Active == {"fetch", "acquire", "write", "flush", "release", "signal"}

\* a pool thread takes the oldest queued task
Start(t) ==
    /\ wpc[t] = "queued"
    /\ Cardinality({u \in Tickets : wpc[u] \in Active}) < MAX_WORKERS
    /\ \A u \in Tickets : u < t => wpc[u] # "queued"
    /\ wpc' = [wpc EXCEPT ![t] = "fetch"]
    /\ UNCHANGED <<nsub, mpc, outcome, data, buf, results, lock, log, event, stop, rpc,
                   snap, final, outFile,
                   late, seen, parserVars, convVars>>

\* what a transport failure leaves behind with a placeholder recorded for it
OnErrorPlaceholder(t) ==
    /\ wpc' = [wpc EXCEPT ![t] = "acquire"]
    /\ outcome' = [outcome EXCEPT ![t] = "error"]
    /\ data' = [data EXCEPT ![t] = Placeholder(str(t))]
    /\ results' = Append(results, Placeholder(str(t)))

\* except Exception, app.py:227-228: the error is printed, nothing else
OnError(t) ==
    /\ wpc' = [wpc EXCEPT ![t] = "done"]
    /\ outcome' = [outcome EXCEPT ![t] = "error"]
    /\ UNCHANGED <<data, results>>

\* session.post raises (app.py:157)
FetchFailed(t) ==
    /\ wpc[t] = "fetch"
    /\ OnError(t)
    /\ UNCHANGED <<nsub, mpc, buf, lock, log, event, stop, rpc, snap, final, outFile,
                   late, seen, parserVars, convVars>>

\* the record worker() appends for what fetch_result returned, app.py:211-225
Classify(d, htno) == IF d = Absent THEN Placeholder(htno) ELSE d

\* the response arrives; results.append(data), app.py:213 and 224
FetchReturned(t) ==
    /\ wpc[t] = "fetch"
    /\ \E p \in SpecPages(t) :
         LET d == fetch_result(p)
         IN /\ outcome' = [outcome EXCEPT ![t] = IF d = Absent THEN "noresult" ELSE "saved"]
            /\ data' = [data EXCEPT ![t] = Classify(d, str(t))]
            /\ results' = Append(results, Classify(d, str(t)))
    /\ wpc' = [wpc EXCEPT ![t] = "acquire"]
    /\ UNCHANGED <<nsub, mpc, buf, lock, log, event, stop, rpc, snap, final, outFile,
                   late, seen, parserVars, convVars>>

\* an append that does not wait for the lock
LockIgnored == TRUE

\* with lock: (app.py:66) blocks until the lock is free
LockAvailable == lock = Free

Acquire(t) ==
    /\ wpc[t] = "acquire"
    /\ LockAvailable
    /\ lock' = t
    /\ wpc' = [wpc EXCEPT ![t] = "write"]
    /\ UNCHANGED <<nsub, mpc, outcome, data, buf, results, log, event, stop, rpc, snap,
                   final, outFile,
                   late, seen, parserVars, convVars>>

\* how many characters of a line a reader of the file can find before f.flush
\* has returned: none (the line is in the buffer), a proper part of the JSON
\* text, or the JSON text without its line terminator (a line that does not
\* fit the buffer goes to the file in an os.write that a reader without the
\* lock can see half done)
WriteThrough(line) == {0, Len(line) \div 2, Len(line) - 1}

\* f.write(...), app.py:68
Write(t) ==
    /\ wpc[t] = "write"
    /\ \E k \in WriteThrough(Line(data[t])) :
         /\ log' = log \o SubSeq(Line(data[t]), 1, k)
         /\ buf' = [buf EXCEPT ![t] = SubSeq(Line(data[t]), k + 1, Len(Line(data[t])))]
    /\ wpc' = [wpc EXCEPT ![t] = "flush"]
    /\ UNCHANGED <<nsub, mpc, outcome, data, results, lock, event, stop, rpc, snap,
                   final, outFile,
                   late, seen, parserVars, convVars>>

\* f.flush(), os.fsync and the close of the file, app.py:69-73
Flush(t) ==
    /\ wpc[t] = "flush"
    /\ log' = log \o buf[t]
    /\ buf' = [buf EXCEPT ![t] = <<>>]
    /\ wpc' = [wpc EXCEPT ![t] = "release"]
    /\ UNCHANGED <<nsub, mpc, outcome, data, results, lock, event, stop, rpc, snap,
                   final, outFile,
                   late, seen, parserVars, convVars>>

\* the end of the with lock block
Release(t) ==
    /\ wpc[t] = "release"
    /\ lock' = Free
    /\ wpc' = [wpc EXCEPT ![t] = "signal"]
    /\ UNCHANGED <<nsub, mpc, outcome, data, buf, results, log, event, stop, rpc, snap,
                   final, outFile,
                   late, seen, parserVars, convVars>>

\* auto_excel_event.set(), app.py:75-76, and the return of worker()
Signal(t) ==
    /\ wpc[t] = "signal"
    /\ event' = TRUE
    /\ wpc' = [wpc EXCEPT ![t] = "done"]
    /\ UNCHANGED <<nsub, mpc, outcome, data, buf, results, lock, log, stop, rpc, snap,
                   final, outFile,
                   late, seen, parserVars, convVars>>

\* ---- _auto_excel_worker, app.py:115-128, and generate_excel, app.py:87-112
Alive == mpc # "done"

\* while not auto_excel_stop.is_set()
LoopTest ==
    /\ Alive /\ rpc = "loop"
    /\ rpc' = IF stop THEN "exit" ELSE "wait"
    /\ UNCHANGED <<nsub, mpc, wpc, outcome, data, buf, results, lock, log, event, stop,
                   snap, final, outFile,
                   late, seen, parserVars, convVars>>

\* auto_excel_event.wait(interval) returns because the event is set
WaitSignalled ==
    /\ Alive /\ rpc = "wait" /\ event
    /\ rpc' = "check"
    /\ UNCHANGED <<nsub, mpc, wpc, outcome, data, buf, results, lock, log, event, stop,
                   snap, final, outFile,
                   late, seen, parserVars, convVars>>

\* ... or because the interval has passed
WaitTimeout ==
    /\ Alive /\ rpc = "wait" /\ ~event
    /\ rpc' = "check"
    /\ UNCHANGED <<nsub, mpc, wpc, outcome, data, buf, results, lock, log, event, stop,
                   snap, final, outFile,
                   late, seen, parserVars, convVars>>

\* if auto_excel_stop.is_set(): break
StopTest ==
    /\ Alive /\ rpc = "check"
    /\ rpc' = IF stop THEN "exit" ELSE "clear"
    /\ UNCHANGED <<nsub, mpc, wpc, outcome, data, buf, results, lock, log, event, stop,
                   snap, final, outFile,
                   late, seen, parserVars, convVars>>

\* one more regeneration has started; late counts those started since the
\* stop signal was raised
Started(n) == IF ~stop THEN n ELSE IF n = "none" THEN "one" ELSE "more"

\* auto_excel_event.clear(), and generate_excel() is called
Clear ==
    /\ Alive /\ rpc = "clear"
    /\ event' = FALSE
    /\ rpc' = "read"
    /\ late' = Started(late)
    /\ UNCHANGED <<nsub, mpc, wpc, outcome, data, buf, results, lock, log, stop, snap,
                   final, outFile,
                   seen, parserVars, convVars>>

\* how much of the line of ticket t is in the file: nothing, a proper part of
\* its JSON text, the whole JSON text without the line terminator, or the
\* whole line with the write and the flush of append_result over
InFile(t) ==
    LET n == Len(Line(data[t])) - Len(buf[t])
    IN IF data[t] = NoRecord THEN "none"
       ELSE IF wpc[t] \in {"release", "signal", "done"} THEN "appended"
       ELSE IF wpc[t] # "flush" \/ n = 0 THEN "none"
       ELSE IF n = Len(Line(data[t])) - 1 THEN "text"
       ELSE "part"

\* items = load_items(Path(NDJSON_FILE)); if not items: return
\* the file is read without the lock, whatever the workers have written
Load ==
    /\ Alive /\ rpc = "read"
    /\ snap' = load_items(log)
    /\ rpc' = IF Len(load_items(log)) = 0 THEN "loop" ELSE "excel"
    /\ seen' = [t \in Tickets |-> InFile(t)]
    /\ UNCHANGED <<nsub, mpc, wpc, outcome, data, buf, results, lock, log, event, stop,
                   final, outFile,
                   late, parserVars, convVars>>

\* a refresher that resets the event when the regeneration is over
RegenerateThenClear ==
    /\ Alive /\ rpc = "excel"
    /\ outFile' = items_to_excel(snap)
    /\ event' = FALSE
    /\ rpc' = "loop"
    /\ UNCHANGED <<nsub, mpc, wpc, outcome, data, buf, results, lock, log, stop,
                   snap, final,
                   late, seen, parserVars, convVars>>

\* items_to_excel(items, Path(OUTPUT_FILE), PROTECT_PASSWORD)
Regenerate ==
    /\ Alive /\ rpc = "excel"
    /\ outFile' = items_to_excel(snap)
    /\ rpc' = "loop"
    /\ UNCHANGED <<nsub, mpc, wpc, outcome, data, buf, results, lock, log, event, stop,
                   snap, final,
                   late, seen, parserVars, convVars>>

Next ==
    \/ Submit \/ PoolDrained \/ StopSet \/ StopWake \/ JoinEnded \/ JoinTimeout
    \/ FinalRead \/ FinalWrite \/ Exit
    \/ \E t \in Tickets : Start(t)
    \/ \E t \in Tickets : FetchFailed(t)
    \/ \E t \in Tickets : FetchReturned(t)
    \/ \E t \in Tickets : Acquire(t)
    \/ \E t \in Tickets : Write(t)
    \/ \E t \in Tickets : Flush(t)
    \/ \E t \in Tickets : Release(t)
    \/ \E t \in Tickets : Signal(t)
    \/ LoopTest \/ WaitSignalled \/ WaitTimeout \/ StopTest \/ Clear \/ Load
    \/ Regenerate

Spec == Init /\ [][Next]_vars

\* the threads are scheduled: the refresher does not stay for ever at a
\* position of its loop that it can leave, and a worker that has written its
\* line leaves the lock and sets the event. The refresher leaves its wait when
\* the event is set; nothing is assumed of main, of the fetches, or of the
\* interval of auto_excel_event.wait (WaitTimeout).
Positions == {"loop", "wait", "check", "clear", "read", "excel", "exit"}
Leaves(p) == Alive /\ rpc = p /\ rpc' \in Positions \ {p}
FairSpec ==
    /\ Spec
    /\ \A p \in {"loop", "check", "clear", "read", "excel"} : WF_rpc(Leaves(p))
    /\ WF_rpc(event /\ Leaves("wait"))
    /\ \A t \in Tickets : WF_vars(Release(t)) /\ WF_vars(Signal(t))

\* ====================================================== the parser alone
\* the tables of up to MaxRows rows of up to MaxCells cells; the cell at
\* rows[1], td[1] shows the hall ticket, every other cell a fixed text
CellText(r, c) == IF r = 2 /\ c = 2 THEN str(START_HT) ELSE <<"A">>

Shapes == UNION {[1..n -> 0..MaxCells] : n \in 0..MaxRows}

TableOf(shape) == [r \in 1..Len(shape) |-> [c \in 1..shape[r] |-> CellText(r, c)]]

MarksTable == << << <<>>, <<>>, <<CodeM, <<"M">>, <<"4">>, <<"A">>>>, <<CodeP, <<"P">>>> >> >>
FinalTables == {<<>>, << << <<>>, <<>> >> >>,
                << << <<>>, <<>>, << <<"A">>, <<"A">>, <<"P">> >> >> >>}

ParserPages ==
    [marker : BOOLEAN,
     t3 : {<<>>} \cup {<<TableOf(sh)>> : sh \in Shapes},
     t4 : {<<>>, MarksTable},
     t5 : FinalTables]

ParserInit ==
    /\ nsub = 0
    /\ mpc = "submit"
    /\ wpc = [t \in Tickets |-> "new"]
    /\ outcome = [t \in Tickets |-> "none"]
    /\ data = [t \in Tickets |-> NoRecord]
    /\ buf = [t \in Tickets |-> <<>>]
    /\ results = <<>>
    /\ lock = Free
    /\ log = <<>>
    /\ event = FALSE
    /\ stop = FALSE
    /\ rpc = "loop"
    /\ snap = <<>>
    /\ final = <<>>
    /\ outFile = NoFile
    /\ late = "none"
    /\ seen = [t \in Tickets |-> "none"]
    /\ page \in ParserPages
    /\ parsed = Pending
    /\ items = <<>>
    /\ cpc = "idle"
    /\ staged = <<>>
    /\ loaded = <<>>
    /\ viaMain = NoFile
    /\ viaHelper = NoFile

\* fetch_result is given the response body
Parse ==
    /\ parsed = Pending
    /\ parsed' = fetch_result(page)
    /\ UNCHANGED <<page, runVars, convVars>>

ParserNext == Parse

SpecParser == ParserInit /\ [][ParserNext]_vars

\* ================================================ the conversions alone
\* a staged log of up to MaxItems records is written by append_result, read
\* back by load_items, and converted by main's code and by items_to_excel
ItemSeqs == UNION {[1..n -> Records] : n \in 0..MaxItems}

ConvInit ==
    /\ nsub = 0
    /\ mpc = "submit"
    /\ wpc = [t \in Tickets |-> "new"]
    /\ outcome = [t \in Tickets |-> "none"]
    /\ data = [t \in Tickets |-> NoRecord]
    /\ buf = [t \in Tickets |-> <<>>]
    /\ results = <<>>
    /\ lock = Free
    /\ log = <<>>
    /\ event = FALSE
    /\ stop = FALSE
    /\ rpc = "loop"
    /\ snap = <<>>
    /\ final = <<>>
    /\ outFile = NoFile
    /\ late = "none"
    /\ seen = [t \in Tickets |-> "none"]
    /\ page = NoMarkerPage
    /\ parsed = Pending
    /\ items \in ItemSeqs
    /\ cpc = "append"
    /\ staged = <<>>
    /\ loaded = <<>>
    /\ viaMain = NoFile
    /\ viaHelper = NoFile

\* the lines of the records appended so far
RECURSIVE Lines(_)
Lines(recs) == IF Len(recs) = 0 THEN <<>> ELSE Line(Head(recs)) \o Lines(Tail(recs))

\* append_result(data) for the next record, app.py:64-73
AppendOne ==
    /\ cpc = "append" /\ staged # Lines(items)
    /\ \E k \in 1..Len(items) :
         /\ staged = Lines(SubSeq(items, 1, k - 1))
         /\ staged' = staged \o Line(items[k])
    /\ UNCHANGED <<items, cpc, loaded, viaMain, viaHelper, runVars, parserVars>>

\* load_items(path), json_to_excel.py:202
LoadBack ==
    /\ cpc = "append" /\ staged = Lines(items)
    /\ loaded' = load_items(staged)
    /\ cpc' = "convert"
    /\ UNCHANGED <<items, staged, viaMain, viaHelper, runVars, parserVars>>

\* the same records through main's conversion and through items_to_excel
Convert ==
    /\ cpc = "convert"
    /\ viaMain' = MainReport(items)
    /\ viaHelper' = items_to_excel(items)
    /\ cpc' = "done"
    /\ UNCHANGED <<items, staged, loaded, runVars, parserVars>>

ConvNext == AppendOne \/ LoadBack \/ Convert

SpecReport == ConvInit /\ [][ConvNext]_vars

\* ================================================================ claims
Fetched(t) == outcome[t] \in {"saved", "noresult"}
Reported == mpc \in {"written", "done"}

\* C1: after the run, the final report has exactly one row for every ticket of
\* the range whose fetch did not fail at the transport level.
C1_OneRowPerTicket ==
    Reported =>
        \A t \in Tickets : Fetched(t) => Count(MainRows(final), str(t)) = 1

\* C2: at most one worker is inside the locked write/flush section; the log is
\* the whole lines of the records appended so far, one line for each worker
\* that has left the section, followed only by the part of the line the worker
\* inside the section has written.
InSection(t) == wpc[t] \in {"write", "flush", "release"}
Appended == {t \in Tickets : wpc[t] \in {"release", "signal", "done"} /\ Fetched(t)}
WrittenPart(t) == SubSeq(Line(data[t]), 1, Len(Line(data[t])) - Len(buf[t]))
C2_AppendsAreWholeRecords ==
    /\ Cardinality({t \in Tickets : InSection(t)}) <= 1
    /\ LET writers == {t \in Tickets : wpc[t] = "flush"}
           part == IF writers = {} THEN <<>>
                   ELSE WrittenPart(CHOOSE t \in writers : TRUE)
           whole == SubSeq(log, 1, Len(log) - Len(part))
           recs == ReadFinal(whole)
       IN /\ Len(part) <= Len(log)
          /\ log = whole \o part
          /\ whole = Lines(recs)
          /\ Len(recs) = Cardinality(Appended)
          /\ \A t \in Appended :
                Count(recs, data[t]) = Cardinality({u \in Appended : data[u] = data[t]})

\* a worker has written the first part of its line and holds the lock while
\* another worker waits to append
C2_Witness ==
    \E t, u \in Tickets :
        /\ wpc[t] = "flush" /\ Len(buf[t]) > 0 /\ Len(WrittenPart(t)) > 0
        /\ wpc[u] = "acquire"

\* C3: when main reads the log and writes the final report the refresher is no
\* longer regenerating, and no refresher write of the output spreadsheet
\* follows the final report's write.
C3_RefresherStoppedBeforeFinal ==
    /\ mpc \in {"read", "write", "written"} => ~Regenerating
    /\ Reported => outFile.by = "main"

\* C4: a transport failure appends nothing for its ticket (no record, no
\* placeholder, in memory or in the log), is not retried, and does not stop
\* the pool: once the pool has drained every ticket was fetched, and the log
\* holds the records of exactly the tickets that did not fail.
C4_TransportFailureDropsOnlyItsTicket ==
    /\ \A t \in Tickets :
          outcome[t] = "error" =>
              wpc[t] = "done" /\ data[t] = NoRecord /\ buf[t] = <<>>
    /\ Len(results) = Cardinality({t \in Tickets : Fetched(t)})
    /\ mpc # "submit" =>
          /\ \A t \in Tickets : outcome[t] # "none"
          /\ Len(ReadFinal(log)) = Cardinality({t \in Tickets : Fetched(t)})
          /\ \A t \in Tickets : Fetched(t) => data[t] \in Range(ReadFinal(log))

\* the pool has drained with one fetch failed and another one recorded
C4_Witness ==
    /\ mpc = "stop"
    /\ \E t, u \in Tickets :
          /\ outcome[t] = "error" /\ outcome[u] = "saved"
          /\ data[u] \in Range(ReadFinal(log))

\* C5: the rows of the final report's results sheet are in ascending
\* hallticket order, by number when every hallticket is an integer and as
\* strings otherwise, whatever the order of the appends and the content of the
\* log, a log without any marks included.
Ascending(rows) ==
    IF \A i \in 1..Len(rows) : IsInt(rows[i])
    THEN \A i, j \in 1..Len(rows) : i < j => ToInt(rows[i]) <= ToInt(rows[j])
    ELSE \A i, j \in 1..Len(rows) : i < j => ~StrLess(rows[j], rows[i])
C5_FinalRowsAscending == Reported => Ascending(MainRows(final))

\* C6: every record in the log carries a hallticket and no two records of the
\* log carry the same one, whatever pages the server returns.
C6_HallticketsUniqueInLog ==
    LET recs == ReadFinal(log)
    IN /\ \A i \in 1..Len(recs) : "hallticket" \in DOMAIN recs[i].student
       /\ \A i, j \in 1..Len(recs) : i # j => Hallticket(recs[i]) # Hallticket(recs[j])

\* C7: for the same records, load_items followed by items_to_excel writes the
\* workbook main's conversion writes: the same results columns in the same
\* order, the same results rows, the same grades columns.
C7_HelperWritesMainsWorkbook ==
    cpc = "done" =>
        /\ viaHelper.cols = viaMain.cols
        /\ viaHelper.rows = viaMain.rows
        /\ viaHelper.grades = viaMain.grades

\* C8: reading back with load_items a log written by append_result yields
\* records with exactly the halltickets that were appended.
C8_RoundTripKeepsHalltickets ==
    cpc \in {"convert", "done"} =>
        {Hallticket(loaded[i]) : i \in 1..Len(loaded)}
            = {Hallticket(items[i]) : i \in 1..Len(items)}

\* C9: in the final report's results sheet the fixed core columns come first,
\* then the subject-code columns by descending number of occurrences of the
\* code, grade_, credits_ and subject_ of a code next to each other.
Pos(cols, c) == CHOOSE i \in 1..Len(cols) : cols[i] = c
C9_CoreThenCodesByFrequency ==
    cpc = "done" =>
        LET cols == viaMain.cols
            codes == MarkCodes(items)
            ncore == Cardinality(Range(cols) \cap Range(core_pref_main))
        IN /\ \A i \in 1..Len(cols) : cols[i] \in Range(core_pref_main) <=> i <= ncore
           /\ \A x \in Range(codes) :
                 /\ Col("grade_", x) \in Range(cols)
                 /\ Pos(cols, Col("grade_", x)) > ncore
                 /\ Pos(cols, Col("grade_", x)) <= ncore + 3 * Cardinality(Range(codes))
                 /\ Tok(cols, Pos(cols, Col("grade_", x)) + 1) = Col("credits_", x)
                 /\ Tok(cols, Pos(cols, Col("grade_", x)) + 2) = Col("subject_", x)
           /\ \A x, y \in Range(codes) :
                 Count(codes, x) > Count(codes, y) =>
                     Pos(cols, Col("grade_", x)) < Pos(cols, Col("grade_", y))

\* C10: the parser returns absent or a record whose student has all five
\* fields; absent when the marker is missing or a cell of the personal-details
\* table it reads is missing; it does not raise.
CellsRead == {<<1, 1>>, <<1, 3>>, <<2, 1>>, <<2, 3>>, <<3, 1>>}
CellMissing(p) ==
    \/ Len(p.t3) = 0
    \/ \E rc \in CellsRead : ~HasCell(p.t3[1], rc[1], rc[2])
C10_ParserFailsClosed ==
    parsed # Pending =>
        /\ parsed # Raised
        /\ parsed = Absent \/ DOMAIN parsed.student = Range(StudentKeys)
        /\ ~page.marker => parsed = Absent
        /\ CellMissing(page) => parsed = Absent

\* a page with the marker whose row 3 lacks the course cell was parsed
C10_Witness ==
    /\ parsed = Absent
    /\ page.marker /\ Len(page.t3) = 1
    /\ HasCell(page.t3[1], 1, 3) /\ HasCell(page.t3[1], 2, 3)
    /\ In(page.t3[1], 3) /\ ~HasCell(page.t3[1], 3, 1)

\* C11: one task is submitted for each ticket of the range, in order; main
\* raises the stop signal and begins the final read only after every submitted
\* task has finished; once the final read has begun nothing is appended to the
\* log or to the in-memory list.
FinalReadBegun == mpc \in {"read", "write", "written", "done"}
C11_TasksSubmittedAndFinished ==
    /\ nsub \in 0..NumTickets
    /\ \A t \in Tickets : wpc[t] = "new" <=> t >= START_HT + nsub
    /\ mpc # "submit" => nsub = NumTickets /\ \A t \in Tickets : wpc[t] = "done"
    /\ stop \/ FinalReadBegun => \A t \in Tickets : wpc[t] = "done"
C11_NoAppendAfterPoolDrained ==
    /\ []C11_TasksSubmittedAndFinished
    /\ [][FinalReadBegun => log' = log /\ results' = results]_vars

\* the final read has taken place with a record of every ticket in the log
C11_Witness ==
    /\ mpc = "write"
    /\ Len(final) = NumTickets
    /\ \A t \in Tickets : Fetched(t)

\* C12: once main has raised the stop signal (stop set, then the event set)
\* the refresher terminates, wherever in its loop it is, and it starts at most
\* one more regeneration after the stop signal was raised.
StopRaised == stop /\ mpc \in {"join", "read", "write", "written", "done"}
Terminated == rpc = "exit" \/ ~Alive
C12_RefresherTerminatesAfterStop ==
    /\ StopRaised ~> Terminated
    /\ [](late # "more")

\* the refresher has left its loop after a regeneration that started when the
\* stop signal was already raised
C12_Witness == rpc = "exit" /\ late = "one" /\ StopRaised

\* C13: no new-data signal is lost: for every record appended before the stop
\* signal is raised, a regeneration that reads the log after that append
\* eventually takes place, or the stop signal is raised first; the interval of
\* the wait is not relied on.
C13_NoSignalLost ==
    \A t \in Tickets : (InFile(t) = "appended" /\ ~stop) ~> (seen[t] = "appended" \/ stop)

\* before the stop signal, the refresher has read a log that holds a record of
\* every ticket
C13_Witness == ~stop /\ \A t \in Tickets : seen[t] = "appended"

\* C14: the refresher reads the log without the lock, and every snapshot it
\* loads holds only whole records whose JSON text was in the log at the read:
\* a record of which only a part was written then is left out, no record is
\* loaded truncated or corrupt, and none that was never appended appears.
Readable == {t \in Tickets : seen[t] \in {"text", "appended"}}
====
